---- MODULE Spec2Model ----
(***************************************************************************)
(* A model of atuin-bar's backend (src-tauri/src/lib.rs) and of the result *)
(* line parser of its integration tests.                                   *)
(*                                                                         *)
(* Text is a sequence of tokens.  A token is one character that matters to *)
(* the code (a quote, a backslash, '#', '|', a digit, a line break) or an  *)
(* atom: a run of ordinary characters ("dark", "--cwd") none of which is   *)
(* special to any parser of the model.  The empty string is << >>.         *)
(***************************************************************************)
EXTENDS Integers, Sequences, FiniteSets, TLC

VARIABLES platform, configDir, file, cfgCall, searchCall, parseCall,
          visible, focusRequested, shownAtStart, events, calls, lastWriter

vars == <<platform, configDir, file, cfgCall, searchCall, parseCall,
          visible, focusRequested, shownAtStart, events, calls, lastWriter>>

overlapVars == <<calls, lastWriter>>

windowVars == <<visible, focusRequested, shownAtStart, events>>

parseVars == <<parseCall>>

searchVars == <<searchCall>>

cfgVars == <<platform, configDir, file, cfgCall>>

(* ------------------------------ bounds --------------------------------- *)

\* Longest string (in tokens) the front end passes to update_config.
MaxStrLen == 1

\* Most history entries the external tool prints in one run.
MaxEntries == 2

\* Longest line (in characters) given to parse_atuin_line on its own.
MaxLineLen == 7

\* Most hotkey and window events followed after start-up.
MaxEvents == 3

(* ------------------------------- text ---------------------------------- *)

Q == "\""

BS == "\\"

HASH == "#"

TAB == "<TAB>"

NoneOpt == [some |-> FALSE]

Some(v) == [some |-> TRUE, val |-> v]

\* All sequences over alphabet of length at most n.
StringsUpTo(alphabet, n) == UNION {[1..k -> alphabet] : k \in 0..n}

DigitChars == <<"0", "1", "2", "3", "4", "5", "6", "7", "8", "9">>

IsDigit(c) == \E d \in 1..10 : DigitChars[d] = c

DigitValue(c) == (CHOOSE d \in 1..10 : DigitChars[d] = c) - 1

\* Display for u32: decimal, no sign, no leading zeros.
RECURSIVE FormatU32(_)
FormatU32(n) ==
    IF n < 10 THEN <<DigitChars[n + 1]>>
    ELSE FormatU32(n \div 10) \o <<DigitChars[(n % 10) + 1]>>

RECURSIVE DigitsValue(_)
DigitsValue(ds) ==
    IF ds = << >> THEN 0
    ELSE 10 * DigitsValue(SubSeq(ds, 1, Len(ds) - 1)) + DigitValue(ds[Len(ds)])

(* ------------------------- Config (lib.rs 9-35) ------------------------ *)

Fields == {"shortcut", "theme", "max_results", "window_width"}

StringFields == {"shortcut", "theme"}

\* impl Default for Config; plat stands for cfg!(target_os = "macos").
ConfigDefault(plat) ==
    [shortcut |-> IF plat = "macos" THEN <<"CommandOrControl+Shift+Space">>
                  ELSE <<"Control+Shift+Space">>,
     theme |-> <<"dark">>,
     max_results |-> 20,
     window_width |-> 700]

(* --------------------- the config file and its format ------------------ *)

\* A file is absent, present but unreadable, or text.  Text is kept as its
\* "key = value" lines, in order, each value as the raw tokens after "= ";
\* blank lines and whole-line comments, which no parser looks at, are left out.
AbsentFile == [kind |-> "absent", lines |-> << >>]

UnreadableFile == [kind |-> "unreadable", lines |-> << >>]

TextFile(lines) == [kind |-> "text", lines |-> lines]

Line(k, raw) == [key |-> k, raw |-> raw]

\* The literal written on first load (r#"..."# of load_config).
DefaultTemplate ==
    << Line("shortcut", <<Q, "CommandOrControl+Shift+Space", Q>>),
       Line("theme", <<Q, "dark", Q>>),
       Line("max_results", <<"2", "0">>),
       Line("window_width", <<"7", "0", "0">>) >>

\* format!(...) of update_config: each string is put between quotes as it
\* is, each number in decimal.
FormatConfig(config) ==
    << Line("shortcut", <<Q>> \o config.shortcut \o <<Q>>),
       Line("theme", <<Q>> \o config.theme \o <<Q>>),
       Line("max_results", FormatU32(config.max_results)),
       Line("window_width", FormatU32(config.window_width)) >>

BadValue == [ok |-> FALSE, type |-> "none", val |-> << >>, rest |-> << >>]

\* After a value only a comment may follow on its line.
LineEndOk(rest) == rest = << >> \/ rest[1] = HASH

\* A TOML basic string from position i (after the opening quote): up to the
\* first unescaped quote; a backslash must start a known escape.
RECURSIVE ScanBasic(_, _, _)
ScanBasic(raw, i, acc) ==
    IF i > Len(raw) THEN BadValue
    ELSE IF raw[i] = Q
        THEN [ok |-> TRUE, type |-> "str", val |-> acc,
              rest |-> SubSeq(raw, i + 1, Len(raw))]
    ELSE IF raw[i] = "\n" THEN BadValue
    ELSE IF raw[i] = BS
        THEN IF i + 1 > Len(raw) THEN BadValue
             ELSE IF raw[i + 1] = Q THEN ScanBasic(raw, i + 2, Append(acc, Q))
             ELSE IF raw[i + 1] = BS THEN ScanBasic(raw, i + 2, Append(acc, BS))
             ELSE IF raw[i + 1] = "t" THEN ScanBasic(raw, i + 2, Append(acc, TAB))
             ELSE BadValue
    ELSE ScanBasic(raw, i + 1, Append(acc, raw[i]))

\* A TOML multi-line basic string from position i (after the opening three
\* quotes): up to the next three quotes.  Left open at the end of its line it
\* runs into the lines below, none of which holds three quotes in a row in
\* any file of this model, so it is never closed.
RECURSIVE ScanMultiline(_, _, _)
ScanMultiline(raw, i, acc) ==
    IF i > Len(raw) THEN BadValue
    ELSE IF i + 2 <= Len(raw) /\ raw[i] = Q /\ raw[i + 1] = Q /\ raw[i + 2] = Q
        THEN [ok |-> TRUE, type |-> "str", val |-> acc,
              rest |-> SubSeq(raw, i + 3, Len(raw))]
    ELSE IF raw[i] = BS
        THEN IF i + 1 > Len(raw) THEN BadValue
             ELSE IF raw[i + 1] = Q THEN ScanMultiline(raw, i + 2, Append(acc, Q))
             ELSE IF raw[i + 1] = BS THEN ScanMultiline(raw, i + 2, Append(acc, BS))
             ELSE IF raw[i + 1] = "t" THEN ScanMultiline(raw, i + 2, Append(acc, TAB))
             ELSE BadValue
    ELSE ScanMultiline(raw, i + 1, Append(acc, raw[i]))

RECURSIVE DigitPrefixLen(_, _)
DigitPrefixLen(raw, i) ==
    IF i <= Len(raw) /\ IsDigit(raw[i]) THEN DigitPrefixLen(raw, i + 1) ELSE i - 1

\* One TOML value: a string or a decimal integer without leading zeros.
\* Integers of more than 9 digits are outside the inputs of this model (every
\* one it reads is below 10^9, so within u32).
ParseValue(raw) ==
    IF raw = << >> THEN BadValue
    ELSE IF raw[1] = Q
        THEN LET r == IF Len(raw) >= 3 /\ raw[2] = Q /\ raw[3] = Q
                      THEN ScanMultiline(raw, 4, << >>)
                      ELSE ScanBasic(raw, 2, << >>)
             IN IF r.ok /\ LineEndOk(r.rest) THEN r ELSE BadValue
    ELSE IF IsDigit(raw[1])
        THEN LET n == DigitPrefixLen(raw, 1)
             IN IF /\ LineEndOk(SubSeq(raw, n + 1, Len(raw)))
                   /\ (n = 1 \/ raw[1] # "0")
                   /\ n <= 9
                THEN [ok |-> TRUE, type |-> "int",
                      val |-> DigitsValue(SubSeq(raw, 1, n)), rest |-> << >>]
                ELSE BadValue
    ELSE BadValue

\* What a field of Config accepts (String, u32).
FieldAccepts(f, v) ==
    IF f \in StringFields THEN v.type = "str"
    ELSE v.type = "int"

\* toml::from_str::<Config> with #[serde(default)]: every line must be valid
\* TOML, no key twice, every known key of its field's type; unknown keys are
\* ignored and missing ones come from Config::default().
ParseToml(lines, plat) ==
    LET vals == [i \in DOMAIN lines |-> ParseValue(lines[i].raw)]
        ok == /\ \A i \in DOMAIN lines : vals[i].ok
              /\ \A i, j \in DOMAIN lines : i # j => lines[i].key # lines[j].key
              /\ \A i \in DOMAIN lines :
                    lines[i].key \in Fields => FieldAccepts(lines[i].key, vals[i])
        at(f) == CHOOSE i \in DOMAIN lines : lines[i].key = f
    IN IF ok
       THEN [ok |-> TRUE,
             config |-> [f \in Fields |->
                 IF \E i \in DOMAIN lines : lines[i].key = f
                 THEN vals[at(f)].val ELSE ConfigDefault(plat)[f]]]
       ELSE [ok |-> FALSE, config |-> ConfigDefault(plat)]

\* fs::write(path, lines): outcome "ok" replaces the file; "denied" (the file
\* could not be created or opened) leaves it as it was; "truncated" (created,
\* then the write failed) leaves it empty.  Only "ok" returns Ok.
WriteOutcomes == {"ok", "denied", "truncated"}

FsWrite(f, lines, outcome) ==
    CASE outcome = "ok" -> TextFile(lines)
      [] outcome = "truncated" -> TextFile(<< >>)
      [] OTHER -> f

(* --------------------- load_config (lib.rs 43-82) ---------------------- *)

\* load_config with the fallbacks of lines 75 and 79 returning a zeroed
\* record (what a derived Default would give) instead of Config::default().
LoadConfigZeroed(dirOk, plat, f, outcome) ==
    IF ~dirOk
    THEN [config |-> ConfigDefault(plat), file |-> f]
    ELSE IF f.kind = "absent"
    THEN [config |-> ConfigDefault(plat),
          file |-> FsWrite(f, DefaultTemplate, outcome)]
    ELSE IF f.kind = "unreadable" \/ ~ParseToml(f.lines, plat).ok
    THEN [config |-> [shortcut |-> << >>, theme |-> << >>, max_results |-> 0,
                      window_width |-> 0],
          file |-> f]
    ELSE [config |-> ParseToml(f.lines, plat).config, file |-> f]

\* get_config_path() is Some exactly when dirs::config_dir() is (dirOk).
\* The result is the returned Config and the file as the call leaves it.
LoadConfig(dirOk, plat, f, outcome) ==
    IF ~dirOk
    THEN [config |-> ConfigDefault(plat), file |-> f]
    ELSE IF f.kind = "absent"
    THEN [config |-> ConfigDefault(plat),
          file |-> FsWrite(f, DefaultTemplate, outcome)]
    ELSE IF f.kind = "unreadable"
    THEN [config |-> ConfigDefault(plat), file |-> f]
    ELSE [config |-> ParseToml(f.lines, plat).config, file |-> f]

(* -------------------- update_config (lib.rs 113-168) ------------------- *)

\* The overlay with every absent field reset to its default instead of kept.
OverlayResetting(config, args) ==
    [shortcut |-> IF args.shortcut.some THEN args.shortcut.val
                  ELSE <<"Control+Shift+Space">>,
     theme |-> IF args.theme.some THEN args.theme.val ELSE <<"dark">>,
     max_results |-> IF args.max_results.some THEN args.max_results.val ELSE 20,
     window_width |-> IF args.window_width.some THEN args.window_width.val ELSE 700]

\* The four "if let Some(x) = arg" assignments.
Overlay(config, args) ==
    [shortcut |-> IF args.shortcut.some THEN args.shortcut.val ELSE config.shortcut,
     theme |-> IF args.theme.some THEN args.theme.val ELSE config.theme,
     max_results |-> IF args.max_results.some THEN args.max_results.val
                     ELSE config.max_results,
     window_width |-> IF args.window_width.some THEN args.window_width.val
                      ELSE config.window_width]

NoArgs ==
    [shortcut |-> NoneOpt, theme |-> NoneOpt, max_results |-> NoneOpt,
     window_width |-> NoneOpt]

\* The whole call.  loaded is what load_config() at line 125 returns (its
\* Config and the file as it leaves it) and is read only when the path is
\* known; o2 is the outcome of update_config's own write.
UpdateConfig(dirOk, f, loaded, args, o2) ==
    IF ~dirOk
    THEN [ok |-> FALSE, err |-> "Could not determine config path",
          config |-> loaded.config, file |-> f]
    ELSE LET config == Overlay(loaded.config, args)
             after == FsWrite(loaded.file, FormatConfig(config), o2)
         IN IF o2 = "ok"
            THEN [ok |-> TRUE, err |-> "", config |-> config, file |-> after]
            ELSE [ok |-> FALSE, err |-> "Failed to write config",
                  config |-> config, file |-> after]

(* ------------------------- the config store ---------------------------- *)

Platforms == {"macos", "other"}

\* What the front end may pass: plain text, and text with the characters the
\* file format gives a meaning to.
Opt(S) == {NoneOpt} \cup {Some(v) : v \in S}

ShortcutInputs == {<<"Alt+Space">>}

ThemeInputs == StringsUpTo({"light", Q, BS}, MaxStrLen)

MaxResultsInputs == {50}

WindowWidthInputs == {1024}

UpdateArgs ==
    [shortcut : Opt(ShortcutInputs), theme : Opt(ThemeInputs),
     max_results : Opt(MaxResultsInputs), window_width : Opt(WindowWidthInputs)]

\* Files a user may have left in place before the program starts.
InitialFiles ==
    { AbsentFile,
      UnreadableFile,
      TextFile(DefaultTemplate),
      TextFile(<< >>),
      TextFile(<< Line("theme", <<Q, "light", Q, HASH, "mine">>),
                  Line("max_results", <<"5">>),
                  Line("font", <<Q, "mono", Q>>) >>),
      TextFile(<< Line("theme", <<"light">>) >>),
      TextFile(<< Line("theme", <<Q, "light", Q>>),
                  Line("window_width", <<Q, "7", "0", "0", Q>>) >>),
      TextFile(<< Line("max_results", <<"0", "7">>) >>) }

\* The last call of the config store: its arguments, its result, and what
\* it saw: pre is the file a load_config call found, base the Config that
\* update_config's own load_config() returned (line 125).
NoConfig == [shortcut |-> << >>, theme |-> << >>, max_results |-> 0, window_width |-> 0]

NoCall ==
    [op |-> "none", args |-> NoArgs, ok |-> TRUE, err |-> "",
     config |-> NoConfig, base |-> NoConfig, pre |-> AbsentFile]

\* The outcomes of the write load_config makes; it writes only when the path
\* is known and the file absent.
LoadWriteOutcomes ==
    IF configDir /\ file.kind = "absent" THEN WriteOutcomes ELSE {"ok"}

LoadConfigCall ==
    \E o \in LoadWriteOutcomes :
        \E r \in {LoadConfig(configDir, platform, file, o)} :
            /\ file' = r.file
            /\ cfgCall' = [NoCall EXCEPT !.op = "load", !.config = r.config,
                                          !.pre = file]
            /\ UNCHANGED <<platform, configDir, searchVars, parseVars, windowVars, overlapVars>>

\* A failed call returns only its message: Err(String).
UpdateConfigCall ==
    \E o1 \in LoadWriteOutcomes :
        \E loaded \in {LoadConfig(configDir, platform, file, o1)} :
            \E args \in UpdateArgs, o2 \in WriteOutcomes :
                \E r \in {UpdateConfig(configDir, file, loaded, args, o2)} :
                    /\ file' = r.file
                    /\ cfgCall' =
                         IF r.ok
                         THEN [NoCall EXCEPT !.op = "update", !.args = args,
                                             !.config = r.config,
                                             !.base = loaded.config]
                         ELSE [NoCall EXCEPT !.op = "update", !.ok = FALSE,
                                             !.err = r.err]
                    /\ UNCHANGED <<platform, configDir, searchVars, parseVars, windowVars, overlapVars>>

ConfigNext == LoadConfigCall \/ UpdateConfigCall

(* ------- overlapping update_config calls (lib.rs 113-168, 43-82) ------- *)

\* fs::write(path, contents) is File::create(path), which creates the file or
\* empties the one that is there, followed by write_all(contents) on the
\* handle it opened, from offset 0.  File::create (ok or not):
FsCreate(f, ok) == IF ok THEN TextFile(<< >>) ELSE f

\* The bytes of a token: an atom has one per character.
TokenBytes(tok) == IF tok = TAB THEN 1 ELSE Len(tok)

RECURSIVE TextBytes(_)
TextBytes(text) ==
    IF text = << >> THEN 0 ELSE TokenBytes(Head(text)) + TextBytes(Tail(text))

\* key, " = ", the value and the line break.
LineBytes(l) == Len(l.key) + 3 + TextBytes(l.raw) + 1

\* The bytes, line break included, of the comment and blank lines that both
\* literals (load_config's template and update_config's format string) put
\* before the first, second, third and fourth key line.
CommentBytes == << <<26, 1, 39, 67>>, <<1, 45>>, <<1, 53>>, <<1, 40>> >>

\* The lines of a file the program wrote as they lie on disk, comments and
\* blank lines included, from the i-th key line on.
RECURSIVE PhysicalLines(_, _)
PhysicalLines(lines, i) ==
    IF i > Len(lines) THEN << >>
    ELSE LET before == IF i <= Len(CommentBytes) THEN CommentBytes[i] ELSE << >>
         IN [j \in 1..Len(before) |->
                 [isKey |-> FALSE, bytes |-> before[j], line |-> Line("", << >>)]]
            \o <<[isKey |-> TRUE, bytes |-> LineBytes(lines[i]), line |-> lines[i]]>>
            \o PhysicalLines(lines, i + 1)

RECURSIVE SumBytes(_)
SumBytes(phys) == IF phys = << >> THEN 0 ELSE Head(phys).bytes + SumBytes(Tail(phys))

FileBytes(lines) == SumBytes(PhysicalLines(lines, 1))

\* What is left of a line cut inside its key: the end of the key, which is
\* no field's name, with the whole value.
KeyTail == "<end of a key>"

\* What is left of a line cut anywhere else before its last character: text
\* with no "key =" in front, which is not TOML.
Fragment == Line("<fragment>", << >>)

\* What a file written by the program holds from byte p on, as key lines:
\* the line p falls into is cut, the lines after it are whole.
RECURSIVE RemnantFrom(_, _, _)
RemnantFrom(phys, start, p) ==
    IF phys = << >> THEN << >>
    ELSE LET l == Head(phys)
             cut == p - start
             here == IF cut <= 0 THEN IF l.isKey THEN <<l.line>> ELSE << >>
                     ELSE IF cut >= l.bytes - 1 THEN << >>
                     ELSE IF l.isKey /\ cut < Len(l.line.key)
                     THEN <<Line(KeyTail, l.line.raw)>>
                     ELSE <<Fragment>>
         IN here \o RemnantFrom(Tail(phys), start + l.bytes, p)

Remnant(lines, p) == RemnantFrom(PhysicalLines(lines, 1), 0, p)

\* write_all(lines) from offset 0 of the file as it is now: the bytes written
\* replace as many bytes of what the file holds, and what it holds beyond
\* them stays.  A failed write leaves the file as it is.
FsWriteAll(f, lines, ok) ==
    IF ok THEN TextFile(lines \o Remnant(f.lines, FileBytes(lines))) ELSE f

\* read_to_string and toml::from_str of load_config, with their fallbacks.
ReadConfig(plat, f) ==
    IF f.kind = "text" THEN ParseToml(f.lines, plat).config ELSE ConfigDefault(plat)

\* Two calls of the command that may overlap.
Callers == {1, 2}

IdleCall == [pc |-> "idle", args |-> NoArgs, config |-> NoConfig, ok |-> FALSE]

\* What the two calls are given: nothing, or one field.
OverlappingArgs ==
    {NoArgs}
        \cup {[NoArgs EXCEPT !.shortcut = Some(v)] : v \in ShortcutInputs}
        \cup {[NoArgs EXCEPT !.theme = Some(<<"light">>)]}
        \cup {[NoArgs EXCEPT !.max_results = Some(v)] : v \in MaxResultsInputs}
        \cup {[NoArgs EXCEPT !.window_width = Some(v)] : v \in WindowWidthInputs}

\* The call arrives and asks for the config path (lines 113-121).
BeginUpdate(i) ==
    /\ calls[i].pc = "idle"
    /\ \E args \in OverlappingArgs :
          calls' = [calls EXCEPT ![i] =
              IF configDir THEN [IdleCall EXCEPT !.pc = "exists", !.args = args]
              ELSE [IdleCall EXCEPT !.pc = "done", !.args = args]]
    /\ UNCHANGED <<cfgVars, lastWriter, searchVars, parseVars, windowVars>>

\* load_config's config_path.exists() (line 48).
CheckExists(i) ==
    /\ calls[i].pc = "exists"
    /\ calls' = [calls EXCEPT ![i].pc =
                    IF file.kind = "absent" THEN "create_template" ELSE "read"]
    /\ UNCHANGED <<cfgVars, lastWriter, searchVars, parseVars, windowVars>>

\* File::create of load_config's fs::write (line 68); a failure is ignored.
CreateTemplate(i) ==
    /\ calls[i].pc = "create_template"
    /\ \E ok \in BOOLEAN :
          /\ file' = FsCreate(file, ok)
          /\ calls' = [calls EXCEPT
                ![i].pc = IF ok THEN "write_template" ELSE "create",
                ![i].config = IF ok THEN NoConfig
                              ELSE Overlay(ConfigDefault(platform), calls[i].args)]
    /\ UNCHANGED <<platform, configDir, cfgCall, lastWriter, searchVars, parseVars,
                   windowVars>>

\* write_all of load_config's fs::write, its return of Config::default()
\* (line 69) and the overlay of the arguments (lines 127-139).
WriteTemplate(i) ==
    /\ calls[i].pc = "write_template"
    /\ \E ok \in BOOLEAN : file' = FsWriteAll(file, DefaultTemplate, ok)
    /\ calls' = [calls EXCEPT
          ![i].pc = "create",
          ![i].config = Overlay(ConfigDefault(platform), calls[i].args)]
    /\ UNCHANGED <<platform, configDir, cfgCall, lastWriter, searchVars, parseVars,
                   windowVars>>

\* load_config's read and parse (lines 72-81) and the overlay of the
\* arguments (lines 127-139).
ReadFile(i) ==
    /\ calls[i].pc = "read"
    /\ calls' = [calls EXCEPT
          ![i].pc = "create",
          ![i].config = Overlay(ReadConfig(platform, file), calls[i].args)]
    /\ UNCHANGED <<cfgVars, lastWriter, searchVars, parseVars, windowVars>>

\* File::create of update_config's fs::write (line 165); a failure returns
\* Err.
CreateFile(i) ==
    /\ calls[i].pc = "create"
    /\ \E ok \in BOOLEAN :
          /\ file' = FsCreate(file, ok)
          /\ calls' = [calls EXCEPT ![i].pc = IF ok THEN "write" ELSE "done"]
    /\ UNCHANGED <<platform, configDir, cfgCall, lastWriter, searchVars, parseVars,
                   windowVars>>

\* write_all of update_config's fs::write and the return: Ok(config) when it
\* succeeded (line 167), Err when not.
WriteFile(i) ==
    /\ calls[i].pc = "write"
    /\ \E ok \in BOOLEAN :
          /\ file' = FsWriteAll(file, FormatConfig(calls[i].config), ok)
          /\ calls' = [calls EXCEPT ![i].pc = "done", ![i].ok = ok]
          /\ lastWriter' = IF ok THEN i ELSE lastWriter
    /\ UNCHANGED <<platform, configDir, cfgCall, searchVars, parseVars, windowVars>>

OverlapNext ==
    \E i \in Callers :
        \/ BeginUpdate(i)
        \/ CheckExists(i)
        \/ CreateTemplate(i)
        \/ WriteTemplate(i)
        \/ ReadFile(i)
        \/ CreateFile(i)
        \/ WriteFile(i)

(* -------------------- atuin_search (lib.rs 182-240) -------------------- *)

\* The --format argument: one string, here with its delimiters as tokens.
OutputTemplate ==
    <<"{command}", "|", "{exit}", "|", "{duration}", "|", "{directory}", "|", "{time}">>

\* SearchFilters::default().
DefaultFilters == [directory |-> NoneOpt, exit_filter |-> NoneOpt, time_range |-> NoneOpt]

\* Lines 184-190: the arguments every search starts with.
FixedArgs ==
    << <<"search">>, <<"--search-mode">>, <<"prefix">>, <<"--limit">>, <<"50">>,
       <<"--format">>, OutputTemplate >>

\* The directory filter without the is_empty test of line 196.
CwdFlagsNoEmptyTest(f) ==
    IF f.directory.some THEN << <<"--cwd">>, f.directory.val >> ELSE << >>

\* Lines 195-199.
CwdFlags(f) ==
    IF f.directory.some /\ f.directory.val # << >>
    THEN << <<"--cwd">>, f.directory.val >>
    ELSE << >>

\* Lines 202-212.
ExitFlags(f) ==
    IF ~f.exit_filter.some THEN << >>
    ELSE IF f.exit_filter.val = <<"success">> THEN << <<"--exit">>, <<"0">> >>
    ELSE IF f.exit_filter.val = <<"failure">> THEN << <<"--exclude-exit">>, <<"0">> >>
    ELSE << >>

\* Lines 215-226.
AfterFlags(f) ==
    IF ~f.time_range.some THEN << >>
    ELSE IF f.time_range.val = <<"1h">> THEN << <<"--after">>, <<"1 hour ago">> >>
    ELSE IF f.time_range.val = <<"24h">> THEN << <<"--after">>, <<"1 day ago">> >>
    ELSE IF f.time_range.val = <<"7d">> THEN << <<"--after">>, <<"7 days ago">> >>
    ELSE IF f.time_range.val = <<"30d">> THEN << <<"--after">>, <<"30 days ago">> >>
    ELSE << >>

\* The argument list with cmd.arg(query) made before the filters are applied.
AtuinArgsQueryFirst(query, filters) ==
    LET f == IF filters.some THEN filters.val ELSE DefaultFilters
    IN FixedArgs \o <<query>> \o CwdFlags(f) \o ExitFlags(f) \o AfterFlags(f)

\* Lines 183-228: the arguments given to Command::new("atuin"), in order.
AtuinArgs(query, filters) ==
    LET f == IF filters.some THEN filters.val ELSE DefaultFilters
    IN FixedArgs \o CwdFlags(f) \o ExitFlags(f) \o AfterFlags(f) \o <<query>>

\* A byte sequence holds INVALID where it is not UTF-8.
INVALID == "<FF>"

REPLACEMENT == "<U+FFFD>"

\* String::from_utf8.
FromUtf8(bytes) ==
    IF \E i \in DOMAIN bytes : bytes[i] = INVALID
    THEN [ok |-> FALSE, text |-> << >>]
    ELSE [ok |-> TRUE, text |-> bytes]

\* String::from_utf8_lossy.
FromUtf8Lossy(bytes) ==
    [i \in DOMAIN bytes |-> IF bytes[i] = INVALID THEN REPLACEMENT ELSE bytes[i]]

\* Messages are sequences of words and marks.
SpawnPrefix == <<"Failed", "to", "execute", "atuin", "command", ":">>

DecodePrefix == <<"Failed", "to", "parse", "atuin", "output", ":">>

ToolPrefix == <<"atuin", "command", "failed", ":">>

\* Display of std::string::FromUtf8Error.
Utf8ErrorText == <<"invalid", "utf-8", "sequence">>

\* ExitStatus::success(): an exit code of 0 (a process killed by a signal has
\* no code).
StatusSuccess(status) == status.some /\ status.val = 0

\* Lines 230-239 with a failed decode of stdout reported by its bare error.
AtuinResultBareDecodeError(proc) ==
    IF ~proc.spawned
    THEN [ok |-> FALSE, text |-> << >>, err |-> SpawnPrefix \o proc.oserr]
    ELSE IF StatusSuccess(proc.status)
    THEN IF FromUtf8(proc.stdout).ok
         THEN [ok |-> TRUE, text |-> FromUtf8(proc.stdout).text, err |-> << >>]
         ELSE [ok |-> FALSE, text |-> << >>, err |-> Utf8ErrorText]
    ELSE [ok |-> FALSE, text |-> << >>,
          err |-> ToolPrefix \o FromUtf8Lossy(proc.stderr)]

\* Lines 230-239 with the exit status not looked at.
AtuinResultIgnoringStatus(proc) ==
    IF ~proc.spawned
    THEN [ok |-> FALSE, text |-> << >>, err |-> SpawnPrefix \o proc.oserr]
    ELSE IF FromUtf8(proc.stdout).ok
    THEN [ok |-> TRUE, text |-> FromUtf8(proc.stdout).text, err |-> << >>]
    ELSE [ok |-> FALSE, text |-> << >>, err |-> DecodePrefix \o Utf8ErrorText]

\* Lines 230-239: what atuin_search returns for what the process did.
AtuinResult(proc) ==
    IF ~proc.spawned
    THEN [ok |-> FALSE, text |-> << >>, err |-> SpawnPrefix \o proc.oserr]
    ELSE IF StatusSuccess(proc.status)
    THEN IF FromUtf8(proc.stdout).ok
         THEN [ok |-> TRUE, text |-> FromUtf8(proc.stdout).text, err |-> << >>]
         ELSE [ok |-> FALSE, text |-> << >>, err |-> DecodePrefix \o Utf8ErrorText]
    ELSE [ok |-> FALSE, text |-> << >>,
          err |-> ToolPrefix \o FromUtf8Lossy(proc.stderr)]

(* ------- parse_atuin_line (tests/atuin_integration_test.rs 6-19) ------- *)

BAR == "|"

NL == "\n"

\* The largest i with s[i] = c, or 0.
LastIndexOf(s, c) ==
    IF \E i \in DOMAIN s : s[i] = c
    THEN CHOOSE i \in DOMAIN s : s[i] = c /\ \A j \in DOMAIN s : s[j] = c => j <= i
    ELSE 0

\* The smallest i with s[i] = c, or 0.
FirstIndexOf(s, c) ==
    IF \E i \in DOMAIN s : s[i] = c
    THEN CHOOSE i \in DOMAIN s : s[i] = c /\ \A j \in DOMAIN s : s[j] = c => j >= i
    ELSE 0

\* str::rsplitn(n, '|') for n >= 1: at most n pieces, cut from the right, the
\* rightmost first; the last piece is what is left of the string.
RECURSIVE RSplitN(_, _)
RSplitN(s, n) ==
    IF n <= 1 \/ LastIndexOf(s, BAR) = 0 THEN <<s>>
    ELSE <<SubSeq(s, LastIndexOf(s, BAR) + 1, Len(s))>>
         \o RSplitN(SubSeq(s, 1, LastIndexOf(s, BAR) - 1), n - 1)

\* str::splitn(n, '|'), the same from the left.
RECURSIVE SplitN(_, _)
SplitN(s, n) ==
    IF n <= 1 \/ FirstIndexOf(s, BAR) = 0 THEN <<s>>
    ELSE <<SubSeq(s, 1, FirstIndexOf(s, BAR) - 1)>>
         \o SplitN(SubSeq(s, FirstIndexOf(s, BAR) + 1, Len(s)), n - 1)

NoEntry == [command |-> << >>, exit |-> << >>, directory |-> << >>, time |-> << >>]

\* parse_atuin_line cutting from the left (splitn, parts taken in order).
ParseAtuinLineFromLeft(line) ==
    LET parts == SplitN(line, 4)
    IN IF Len(parts) = 4
       THEN [some |-> TRUE,
             val |-> [command |-> parts[1], exit |-> parts[2],
                      directory |-> parts[3], time |-> parts[4]]]
       ELSE [some |-> FALSE, val |-> NoEntry]

\* parse_atuin_line: Some((command, exit, directory, time)) or None.
ParseAtuinLine(line) ==
    LET parts == RSplitN(line, 4)
    IN IF Len(parts) = 4
       THEN [some |-> TRUE,
             val |-> [command |-> parts[4], exit |-> parts[3],
                      directory |-> parts[2], time |-> parts[1]]]
       ELSE [some |-> FALSE, val |-> NoEntry]

\* str::lines(): the pieces between line breaks, without a last empty one.
RECURSIVE SplitLines(_)
SplitLines(t) ==
    IF t = << >> THEN << >>
    ELSE IF FirstIndexOf(t, NL) = 0 THEN <<t>>
    ELSE <<SubSeq(t, 1, FirstIndexOf(t, NL) - 1)>>
         \o SplitLines(SubSeq(t, FirstIndexOf(t, NL) + 1, Len(t)))

(* ---------------------- the external atuin process --------------------- *)

\* The (flag, value) pairs between the fixed arguments and the query.
OptionalPairs(args) ==
    { <<args[i], args[i + 1]>> : i \in {j \in 8..(Len(args) - 2) : (j - 8) % 2 = 0} }

\* The value of --format: the argument after it.
FormatOf(args) == args[(CHOOSE i \in DOMAIN args : args[i] = <<"--format">>) + 1]

\* One history entry printed in a template: each placeholder replaced by the
\* entry's field, everything else copied.
RECURSIVE Render(_, _)
Render(template, e) ==
    IF template = << >> THEN << >>
    ELSE (CASE Head(template) = "{command}" -> e.command
            [] Head(template) = "{exit}" -> e.exit
            [] Head(template) = "{duration}" -> e.duration
            [] Head(template) = "{directory}" -> e.directory
            [] Head(template) = "{time}" -> e.time
            [] OTHER -> <<Head(template)>>)
         \o Render(Tail(template), e)

RECURSIVE RenderAll(_, _)
RenderAll(template, entries) ==
    IF entries = << >> THEN << >>
    ELSE Render(template, Head(entries)) \o <<NL>> \o RenderAll(template, Tail(entries))

\* The shell history the tool searches.
History ==
    { [command |-> <<"git push">>, exit |-> <<"1">>, duration |-> <<"5s">>,
       directory |-> <<"/tmp">>, time |-> <<"t1">>],
      [command |-> <<"ls">>, exit |-> <<"0">>, duration |-> <<"0s">>,
       directory |-> <<"/tmp">>, time |-> <<"t2">>],
      [command |-> <<"cat a ", BAR, " wc">>, exit |-> <<"2">>, duration |-> <<"12ms">>,
       directory |-> <<"/home">>, time |-> <<"t3">>] }

\* The tool honours the exit flags it is given.
ToolSelects(args, e) ==
    /\ << <<"--exclude-exit">>, <<"0">> >> \in OptionalPairs(args) => e.exit # <<"0">>
    /\ << <<"--exit">>, <<"0">> >> \in OptionalPairs(args) => e.exit = <<"0">>

NoProc ==
    [spawned |-> FALSE, oserr |-> << >>, status |-> NoneOpt, stdout |-> << >>,
     stderr |-> << >>, honest |-> FALSE, entries |-> << >>]

\* Runs of the real tool (spec section 6): exit code 0 and, on stdout, each
\* selected entry on a line of its own in the template it was asked for.
HonestRuns(args) ==
    { [NoProc EXCEPT !.spawned = TRUE, !.status = Some(0), !.honest = TRUE,
                     !.entries = es, !.stdout = RenderAll(FormatOf(args), es)] :
        es \in {x \in StringsUpTo(History, MaxEntries) :
                    \A i \in DOMAIN x : ToolSelects(args, x[i])} }

OsErrors == { <<"No such file or directory (os error 2)">>,
              <<"Permission denied (os error 13)">> }

ExitStatuses == {Some(0), Some(1), NoneOpt}

StdoutSamples == { << >>, <<"a", BAR, "0", NL>>, <<"a", INVALID>> }

StderrSamples == { << >>, <<"error">>, <<"bad", INVALID>> }

\* Anything a process at the path "atuin" may do.
ArbitraryRuns ==
    { [NoProc EXCEPT !.oserr = e] : e \in OsErrors }
    \cup { [NoProc EXCEPT !.spawned = TRUE, !.status = st, !.stdout = out,
                          !.stderr = er] :
             st \in ExitStatuses, out \in StdoutSamples, er \in StderrSamples }

(* ------------------------------ searches ------------------------------- *)

QueryInputs == { << >>, <<"git">> }

DirectoryInputs == { << >>, <<"/tmp">> }

ExitFilterInputs == { <<"success">>, <<"failure">>, <<"all">> }

TimeRangeInputs == { <<"1h">>, <<"24h">>, <<"7d">>, <<"30d">>, <<"1y">> }

FilterInputs ==
    Opt([directory : Opt(DirectoryInputs), exit_filter : Opt(ExitFilterInputs),
         time_range : Opt(TimeRangeInputs)])

NoResult == [ok |-> FALSE, text |-> << >>, err |-> << >>]

\* A call of atuin_search: its inputs and, once made, the arguments it
\* built, what the process did and what it returned.
SearchCallOf(q, f) ==
    [op |-> "none", query |-> q, filters |-> f, args |-> << >>, proc |-> NoProc,
     result |-> NoResult]

SearchStarts == { SearchCallOf(q, f) : q \in QueryInputs, f \in FilterInputs }

AtuinSearchCall ==
    /\ searchCall.op = "none"
    /\ \E args \in {AtuinArgs(searchCall.query, searchCall.filters)} :
         \E proc \in ArbitraryRuns \cup HonestRuns(args) :
            searchCall' = [searchCall EXCEPT !.op = "search", !.args = args,
                                             !.proc = proc,
                                             !.result = AtuinResult(proc)]
    /\ UNCHANGED <<cfgVars, parseVars, windowVars, overlapVars>>

SearchNext == AtuinSearchCall

(* ------------------------------- parsing ------------------------------- *)

LineInputs == StringsUpTo({"a", "0", BAR}, MaxLineLen)

ParseCallOf(l) == [op |-> "none", line |-> l, result |-> [some |-> FALSE, val |-> NoEntry]]

ParseStarts == { ParseCallOf(l) : l \in LineInputs }

ParseAtuinLineCall ==
    /\ parseCall.op = "none"
    /\ parseCall' = [parseCall EXCEPT !.op = "parse",
                                      !.result = ParseAtuinLine(parseCall.line)]
    /\ UNCHANGED <<cfgVars, searchVars, windowVars, overlapVars>>

ParseNext == ParseAtuinLineCall

(* ------------- the main window (lib.rs 270-287, 305-312) --------------- *)

\* The global shortcut handler: state is the shortcut event's state, query
\* what window.is_visible() returns ("ok" with the window's visibility, or
\* "err").  hide(), show() and set_focus() take effect; their results are
\* dropped (let _ =).  The result is the visibility after the handler and
\* whether it asked for the focus.
ShortcutHandlerOnAnyState(v, state, query) ==
    IF query = "ok"
    THEN IF v THEN [visible |-> FALSE, focus |-> FALSE]
         ELSE [visible |-> TRUE, focus |-> TRUE]
    ELSE [visible |-> v, focus |-> FALSE]

ShortcutHandler(v, state, query) ==
    IF state = "Pressed"
    THEN IF query = "ok"
         THEN IF v THEN [visible |-> FALSE, focus |-> FALSE]
              ELSE [visible |-> TRUE, focus |-> TRUE]
         ELSE [visible |-> v, focus |-> FALSE]
    ELSE [visible |-> v, focus |-> FALSE]

\* The on_window_event closure: Focused(false) hides, every other event
\* (Focused(true), Moved, Resized, ...) is ignored.
WindowEventHandler(v, event) ==
    IF event = "Focused(false)" THEN FALSE ELSE v

ShortcutStates == {"Pressed", "Released"}

VisibilityQueries == {"ok", "err"}

WindowEvents == {"Focused(true)", "Focused(false)", "Moved"}

\* The name an event is logged under.
ShortcutEventName(state, query) ==
    IF state = "Released" THEN "hotkey_released"
    ELSE IF query = "ok" THEN "hotkey_pressed"
    ELSE "hotkey_pressed_query_failed"

WindowEventName(event) ==
    IF event = "Focused(false)" THEN "focus_lost"
    ELSE IF event = "Focused(true)" THEN "focus_gained"
    ELSE "window_other"

ShortcutEvent ==
    /\ Len(events) < MaxEvents
    /\ \E state \in ShortcutStates, query \in VisibilityQueries :
         \E r \in {ShortcutHandler(visible, state, query)} :
            /\ visible' = r.visible
            /\ focusRequested' = r.focus
            /\ events' = Append(events, ShortcutEventName(state, query))
    /\ UNCHANGED <<cfgVars, searchVars, parseVars, shownAtStart, overlapVars>>

WindowEvent ==
    /\ Len(events) < MaxEvents
    /\ \E event \in WindowEvents :
         /\ visible' = WindowEventHandler(visible, event)
         /\ focusRequested' = FALSE
         /\ events' = Append(events, WindowEventName(event))
    /\ UNCHANGED <<cfgVars, searchVars, parseVars, shownAtStart, overlapVars>>

WindowNext == ShortcutEvent \/ WindowEvent

(* --------------------------- specifications ---------------------------- *)

\* The whole program: before the first call the config directory may or may
\* not be known and the file is as the user left it; the main window starts
\* shown or hidden, as the window configuration (not part of lib.rs) says.
Init ==
    /\ platform \in Platforms
    /\ configDir \in BOOLEAN
    /\ file \in InitialFiles
    /\ cfgCall = NoCall
    /\ searchCall \in SearchStarts
    /\ parseCall \in ParseStarts
    /\ shownAtStart \in BOOLEAN
    /\ visible = shownAtStart
    /\ focusRequested = FALSE
    /\ events = << >>
    /\ calls = [i \in Callers |-> IdleCall]
    /\ lastWriter = 0

Next == ConfigNext \/ OverlapNext \/ SearchNext \/ ParseNext \/ WindowNext

Spec == Init /\ [][Next]_vars

\* The parts on their own: what a specification leaves alone stays as it
\* starts.
InitConfig ==
    /\ platform \in Platforms
    /\ configDir \in BOOLEAN
    /\ file \in InitialFiles
    /\ cfgCall = NoCall
    /\ searchCall = SearchCallOf(<< >>, NoneOpt)
    /\ parseCall = ParseCallOf(<< >>)
    /\ shownAtStart = FALSE
    /\ visible = FALSE
    /\ focusRequested = FALSE
    /\ events = << >>
    /\ calls = [i \in Callers |-> IdleCall]
    /\ lastWriter = 0

SpecConfig == InitConfig /\ [][ConfigNext]_vars

InitOverlap ==
    /\ platform \in Platforms
    /\ configDir \in BOOLEAN
    /\ file \in InitialFiles
    /\ cfgCall = NoCall
    /\ searchCall = SearchCallOf(<< >>, NoneOpt)
    /\ parseCall = ParseCallOf(<< >>)
    /\ shownAtStart = FALSE
    /\ visible = FALSE
    /\ focusRequested = FALSE
    /\ events = << >>
    /\ calls = [i \in Callers |-> IdleCall]
    /\ lastWriter = 0

SpecOverlap == InitOverlap /\ [][OverlapNext]_vars

InitSearch ==
    /\ platform = "other"
    /\ configDir = TRUE
    /\ file = AbsentFile
    /\ cfgCall = NoCall
    /\ searchCall \in SearchStarts
    /\ parseCall = ParseCallOf(<< >>)
    /\ shownAtStart = FALSE
    /\ visible = FALSE
    /\ focusRequested = FALSE
    /\ events = << >>
    /\ calls = [i \in Callers |-> IdleCall]
    /\ lastWriter = 0

SpecSearch == InitSearch /\ [][SearchNext]_vars

InitParse ==
    /\ platform = "other"
    /\ configDir = TRUE
    /\ file = AbsentFile
    /\ cfgCall = NoCall
    /\ searchCall = SearchCallOf(<< >>, NoneOpt)
    /\ parseCall \in ParseStarts
    /\ shownAtStart = FALSE
    /\ visible = FALSE
    /\ focusRequested = FALSE
    /\ events = << >>
    /\ calls = [i \in Callers |-> IdleCall]
    /\ lastWriter = 0

SpecParse == InitParse /\ [][ParseNext]_vars

InitWindow ==
    /\ platform = "other"
    /\ configDir = TRUE
    /\ file = AbsentFile
    /\ cfgCall = NoCall
    /\ searchCall = SearchCallOf(<< >>, NoneOpt)
    /\ parseCall = ParseCallOf(<< >>)
    /\ shownAtStart \in BOOLEAN
    /\ visible = shownAtStart
    /\ focusRequested = FALSE
    /\ events = << >>
    /\ calls = [i \in Callers |-> IdleCall]
    /\ lastWriter = 0

SpecWindow == InitWindow /\ [][WindowNext]_vars

(* ------------------------- claims: config store ------------------------ *)

\* The default record the documentation gives.
DocumentedDefault ==
    [shortcut |-> IF platform = "macos" THEN <<"CommandOrControl+Shift+Space">>
                  ELSE <<"Control+Shift+Space">>,
     theme |-> <<"dark">>, max_results |-> 20, window_width |-> 700]

IsCompleteConfig(c) ==
    /\ DOMAIN c = Fields
    /\ c.shortcut \in Seq(STRING)
    /\ c.theme \in Seq(STRING)
    /\ c.max_results \in Nat
    /\ c.window_width \in Nat

\* The four environments in which load_config has nothing to read.
FallbackCase(dirOk, f) ==
    \/ ~dirOk
    \/ f.kind = "absent"
    \/ f.kind = "unreadable"
    \/ f.kind = "text" /\ ~ParseToml(f.lines, platform).ok

\* C1: load_config never fails: whatever the environment, it returns a
\* complete Config, and when the config directory is unknown, the file is
\* missing, unreadable or malformed, that Config is the documented default.
C1_LoadNeverFails ==
    cfgCall.op = "load" =>
        /\ cfgCall.ok
        /\ IsCompleteConfig(cfgCall.config)
        /\ FallbackCase(configDir, cfgCall.pre) => cfgCall.config = DocumentedDefault

\* A load that found a malformed file and returned the default.
C1_Witness ==
    /\ cfgCall.op = "load"
    /\ configDir
    /\ cfgCall.pre.kind = "text"
    /\ ~ParseToml(cfgCall.pre.lines, platform).ok
    /\ cfgCall.config = DocumentedDefault

\* C2: after a successful update_config, whatever fields and values it was
\* given, the next load_config (no write in between) returns the record
\* update_config returned.
C2_ReloadReturnsUpdated ==
    [][(cfgCall.op = "update" /\ cfgCall.ok /\ cfgCall'.op = "load")
        => cfgCall'.config = cfgCall.config]_vars

\* C3: update_config overlays only the provided fields: each field of the
\* returned record is the provided value when one was given and otherwise the
\* value load_config returned for the current file; with no field provided
\* the current record comes back unchanged.
C3_OverlayOnlyProvided ==
    (cfgCall.op = "update" /\ cfgCall.ok) =>
        /\ \A f \in Fields :
              cfgCall.config[f] = IF cfgCall.args[f].some THEN cfgCall.args[f].val
                                  ELSE cfgCall.base[f]
        /\ cfgCall.args = NoArgs => cfgCall.config = cfgCall.base

\* An update that set the theme only, over a file whose other fields an
\* earlier update had changed.
C3_Witness ==
    /\ cfgCall.op = "update"
    /\ cfgCall.ok
    /\ cfgCall.args.theme = Some(<<"light">>)
    /\ ~cfgCall.args.max_results.some
    /\ ~cfgCall.args.shortcut.some
    /\ cfgCall.base.max_results = 50
    /\ cfgCall.config.max_results = 50
    /\ cfgCall.config.shortcut = <<"Alt+Space">>

\* C12: load_config is stable across runs on every platform: when the file
\* is absent and load_config writes the default file, the next load_config
\* (no update in between) returns the record the first call returned, so the
\* file created on first load holds the defaults the first load returned.
C12_FirstLoadStable ==
    [][(/\ cfgCall.op = "load"
        /\ configDir
        /\ cfgCall.pre.kind = "absent"
        /\ file = TextFile(DefaultTemplate)
        /\ cfgCall'.op = "load")
        => cfgCall'.config = cfgCall.config]_vars

\* C11: overlapping update_config calls are not serialized and the last
\* writer wins: however the steps of two calls interleave, once both have
\* returned (here: both Ok) the file holds exactly the complete record written
\* by the call whose file write happened last, never a mixture of the two.
C11_LastWriterWins ==
    (/\ \A i \in Callers : calls[i].pc = "done" /\ calls[i].ok
     /\ lastWriter \in Callers)
        => file = TextFile(FormatConfig(calls[lastWriter].config))

(* ------------------------- claims: atuin_search ------------------------ *)

EffectiveFilters == IF searchCall.filters.some THEN searchCall.filters.val ELSE DefaultFilters

\* The phrase documented for each recognised time range.
DocumentedPhrase(t) ==
    CASE t = <<"1h">> -> <<"1 hour ago">>
      [] t = <<"24h">> -> <<"1 day ago">>
      [] t = <<"7d">> -> <<"7 days ago">>
      [] t = <<"30d">> -> <<"30 days ago">>
      [] OTHER -> << >>

RecognisedRange(t) == t \in { <<"1h">>, <<"24h">>, <<"7d">>, <<"30d">> }

\* C4: the optional flags are a function of the filters alone: --cwd DIR
\* exactly when directory is present and non-empty; --exit 0 exactly when
\* exit_filter is "success"; --exclude-exit 0 exactly when it is "failure";
\* --after exactly when time_range is 1h, 24h, 7d or 30d, with the documented
\* phrase; and no other flag.
C4_FlagsFollowFilters ==
    searchCall.op = "search" =>
        LET f == EffectiveFilters
            pairs == OptionalPairs(searchCall.args)
        IN /\ (Len(searchCall.args) - 8) % 2 = 0
           /\ Cardinality(pairs) = (Len(searchCall.args) - 8) \div 2
           /\ \A p \in pairs :
                 p[1] \in { <<"--cwd">>, <<"--exit">>, <<"--exclude-exit">>, <<"--after">> }
           /\ (\E p \in pairs : p[1] = <<"--cwd">>)
                 <=> (f.directory.some /\ f.directory.val # << >>)
           /\ \A p \in pairs : p[1] = <<"--cwd">> => p[2] = f.directory.val
           /\ (\E p \in pairs : p[1] = <<"--exit">>)
                 <=> f.exit_filter = Some(<<"success">>)
           /\ (\E p \in pairs : p[1] = <<"--exclude-exit">>)
                 <=> f.exit_filter = Some(<<"failure">>)
           /\ \A p \in pairs : p[1] \in { <<"--exit">>, <<"--exclude-exit">> } => p[2] = <<"0">>
           /\ (\E p \in pairs : p[1] = <<"--after">>)
                 <=> (f.time_range.some /\ RecognisedRange(f.time_range.val))
           /\ \A p \in pairs : p[1] = <<"--after">> => p[2] = DocumentedPhrase(f.time_range.val)

\* A search with all three filters set: three flags.
C4_Witness ==
    /\ searchCall.op = "search"
    /\ searchCall.filters = Some([directory |-> Some(<<"/tmp">>),
                                  exit_filter |-> Some(<<"failure">>),
                                  time_range |-> Some(<<"24h">>)])
    /\ OptionalPairs(searchCall.args) =
          { << <<"--cwd">>, <<"/tmp">> >>, << <<"--exclude-exit">>, <<"0">> >>,
            << <<"--after">>, <<"1 day ago">> >> }

\* C5: for every query, the empty one included, and every filter
\* combination the argument list starts with search --search-mode prefix
\* --limit 50 --format <template> and ends with the query, one argument,
\* after all the flags.
C5_FixedFlagsThenQueryLast ==
    searchCall.op = "search" =>
        LET a == searchCall.args
        IN /\ Len(a) >= 8
           /\ SubSeq(a, 1, 7) = << <<"search">>, <<"--search-mode">>, <<"prefix">>,
                                   <<"--limit">>, <<"50">>, <<"--format">>,
                                   <<"{command}", "|", "{exit}", "|", "{duration}", "|",
                                     "{directory}", "|", "{time}">> >>
           /\ a[Len(a)] = searchCall.query
           /\ \A i \in 8..(Len(a) - 1) :
                 (i - 8) % 2 = 0 =>
                    a[i] \in { <<"--cwd">>, <<"--exit">>, <<"--exclude-exit">>, <<"--after">> }

\* An empty query after filter flags.
C5_Witness ==
    /\ searchCall.op = "search"
    /\ searchCall.query = << >>
    /\ Len(searchCall.args) = 12
    /\ searchCall.args[12] = << >>
    /\ searchCall.args[8] = <<"--cwd">>

ExitedZero(proc) == proc.status = Some(0)

ValidText(bytes) == \A i \in DOMAIN bytes : bytes[i] # INVALID

IsPrefixOf(pre, s) == Len(pre) <= Len(s) /\ SubSeq(s, 1, Len(pre)) = pre

\* C6: the result follows the process: a spawn failure gives the spawn error
\* with the OS message; a non-zero exit gives the tool error with the
\* captured stderr text whatever stdout holds; exit zero with undecodable
\* stdout gives the decode error; Ok(stdout) exactly when the process
\* spawned, exited zero and stdout is valid text.
C6_ResultFollowsProcess ==
    searchCall.op = "search" =>
        LET p == searchCall.proc
            r == searchCall.result
        IN /\ ~p.spawned => (~r.ok /\ r.err = SpawnPrefix \o p.oserr)
           /\ (p.spawned /\ ~ExitedZero(p))
                 => (~r.ok /\ r.err = ToolPrefix \o FromUtf8Lossy(p.stderr))
           /\ (p.spawned /\ ExitedZero(p) /\ ~ValidText(p.stdout))
                 => (~r.ok /\ IsPrefixOf(DecodePrefix, r.err))
           /\ r.ok <=> (p.spawned /\ ExitedZero(p) /\ ValidText(p.stdout))
           /\ r.ok => r.text = p.stdout

\* A failed run whose stdout is fine: the tool error, with stderr.
C6_Witness ==
    /\ searchCall.op = "search"
    /\ searchCall.proc.spawned
    /\ searchCall.proc.status = Some(1)
    /\ searchCall.proc.stdout = <<"a", BAR, "0", NL>>
    /\ searchCall.proc.stderr = <<"error">>
    /\ searchCall.result.err = <<"atuin", "command", "failed", ":", "error">>

\* s holds the words of pat in a row.
Contains(s, pat) ==
    \E i \in 1..(Len(s) - Len(pat) + 1) : SubSeq(s, i, i + Len(pat) - 1) = pat

C9_FailureFilterExitField ==
    ( /\ searchCall.op = "search"
      /\ EffectiveFilters.exit_filter = Some(<<"failure">>)
      /\ searchCall.proc.honest
      /\ searchCall.result.ok ) =>
        LET lines == SplitLines(searchCall.result.text)
        IN /\ Len(lines) = Len(searchCall.proc.entries)
           /\ \A i \in DOMAIN lines :
                 ParseAtuinLine(lines[i]).some =>
                    /\ ParseAtuinLine(lines[i]).val.exit # <<"0">>
                    /\ ParseAtuinLine(lines[i]).val.exit = searchCall.proc.entries[i].exit

(* ----------------------- claims: parse_atuin_line ---------------------- *)

NoBar(s) == \A i \in DOMAIN s : s[i] # BAR

Join4(e) == e.command \o <<BAR>> \o e.exit \o <<BAR>> \o e.directory \o <<BAR>> \o e.time

\* C8: for every line cmd|exit|dir|time whose exit, dir and time hold no
\* '|' (cmd may), parse_atuin_line returns (cmd, exit, dir, time), and
\* joining the four fields with '|' gives the line back.
C8_ParseRoundTrip ==
    parseCall.op = "parse" =>
        \A i, j, k \in DOMAIN parseCall.line :
            LET l == parseCall.line
                cmd == SubSeq(l, 1, i - 1)
                exit == SubSeq(l, i + 1, j - 1)
                dir == SubSeq(l, j + 1, k - 1)
                time == SubSeq(l, k + 1, Len(l))
            IN ( /\ i < j /\ j < k
                 /\ l[i] = BAR /\ l[j] = BAR /\ l[k] = BAR
                 /\ NoBar(exit) /\ NoBar(dir) /\ NoBar(time) ) =>
                    /\ parseCall.result.some
                    /\ parseCall.result.val =
                          [command |-> cmd, exit |-> exit, directory |-> dir, time |-> time]
                    /\ Join4(parseCall.result.val) = l

\* A parsed line whose command holds the delimiter.
C8_Witness ==
    /\ parseCall.op = "parse"
    /\ parseCall.line = <<"a", BAR, "a", BAR, "0", BAR, BAR>>
    /\ parseCall.result.some
    /\ parseCall.result.val.command = <<"a", BAR, "a">>
    /\ parseCall.result.val.exit = <<"0">>

(* ------------------------- claims: main window ------------------------- *)

\* The machine of the claim: a hotkey press flips, a lost focus hides,
\* nothing else moves.
ClaimedStep(v, e) ==
    CASE e = "hotkey_pressed" -> ~v
      [] e = "focus_lost" -> FALSE
      [] OTHER -> v

RECURSIVE ClaimedRun(_, _)
ClaimedRun(v, es) ==
    IF es = << >> THEN v ELSE ClaimedRun(ClaimedStep(v, Head(es)), Tail(es))

\* C10: the window's visibility is the two-state machine driven by hotkey
\* presses (flip; showing asks for the focus) and lost focus (hide); hotkey
\* releases, gained focus and a failed visibility query change nothing; so
\* the window is hidden right after every focus-lost event.
C10_VisibilityMachine ==
    /\ visible = ClaimedRun(shownAtStart, events)
    /\ (events # << >> /\ events[Len(events)] = "focus_lost") => ~visible
    /\ (events # << >> /\ events[Len(events)] = "hotkey_pressed")
          => (focusRequested <=> visible)
    /\ (events # << >> /\ events[Len(events)] # "hotkey_pressed") => ~focusRequested

\* Shown by a press, then hidden by losing the focus.
C10_Witness ==
    /\ ~shownAtStart
    /\ events = <<"hotkey_pressed", "hotkey_released", "focus_lost">>
    /\ ~visible

====
